---- MODULE Spec2Model ----
(***************************************************************************)
(* Parking-Ticket: the ticket repository (ticketStorage, kept in           *)
(* src/src/components/QRCodeCard.js lines 179-385) over the two            *)
(* AsyncStorage keys, at the granularity of its awaits.                    *)
(*                                                                         *)
(* Every `await` of a repository function is a suspension point, so each   *)
(* storage read and each storage write is one action.  A storage call     *)
(* either succeeds or is rejected; getActiveTickets / getHistoryTickets    *)
(* turn a rejected read into [], saveActiveTickets / saveHistoryTickets    *)
(* turn a rejected write into `false` (and leave the key as it was).       *)
(***************************************************************************)
EXTENDS Integers, Sequences, FiniteSets, TLC

(***************************************************************************)
(* Bounds and input sets                                                   *)
(***************************************************************************)
\* number of ids generateTicketId hands out in a run
MaxTickets == 3

\* number of rejected storage calls and process stops in a run
MaxFaults == 1

\* number of ids handed out in a run in which storage calls may be rejected
MaxFaultTickets == 2

\* number of ids handed out in a run in which tickets are entered in the form
MaxFormTickets == 2

\* inputs of the calls; instants are minutes since an arbitrary origin and
\* stand for their ISO strings, a string is a sequence of pieces of text.
\* Only the arguments of closeTicket vary: no repository function reads the
\* other fields of a ticket.
ParkingNames == {<<"Central Lot">>}
Prices == {50}
EntryTimes == {60}
CreationInstants == {61}
\* (exitTime, totalAmount) pairs a caller passes to closeTicket
CloseArgs == {<<0, 0>>, <<185, 150>>}

\* ids a caller may pass: every id that can be minted, and one that never is
TicketIds == 1..(MaxTickets + 1)

\* the JavaScript tasks (event handlers) that run repository calls; the
\* sequential specifications start a call only when no other is in progress
Procs == {"main"}

VARIABLES
  activeStore,   \* value under ACTIVE_TICKETS_KEY: sequence of ticket records
  historyStore,  \* value under HISTORY_TICKETS_KEY: sequence of ticket records
  nextId,        \* generateTicketId: the next id that was never returned before
  pc,            \* pc[p]: where the call of task p is suspended
  call,          \* call[p]: arguments, locals and result of the call of task p
  opened,        \* history variable: ids addTicket returned to its caller
  closedOk,      \* history variable: ids for which closeTicket returned true
  deleted,       \* history variable: ids of history tickets a deleteHistoryTicket returned true for
  interrupted,   \* history variable: ids whose closeTicket was stopped between its two writes
  faults,        \* number of rejected storage calls and process stops so far
  calc           \* one evaluation of a utility function: its arguments and its result

vars == <<activeStore, historyStore, nextId, pc, call, opened, closedOk, deleted, interrupted,
          faults, calc>>

\* the variables of the repository
repository == <<activeStore, historyStore, nextId, pc, call, opened, closedOk, deleted,
                interrupted, faults>>

(***************************************************************************)
(* Helpers on collections                                                  *)
(***************************************************************************)
Ids(tickets) == {tickets[i].id : i \in 1..Len(tickets)}

\* Array.prototype.findIndex((t) => t.id === ticketId), 1-based; 0 for -1
findIndex(tickets, ticketId) ==
  IF \E i \in 1..Len(tickets) : tickets[i].id = ticketId
  THEN CHOOSE i \in 1..Len(tickets) :
         /\ tickets[i].id = ticketId
         /\ \A j \in 1..(i - 1) : tickets[j].id # ticketId
  ELSE 0

\* a slip: the last element is moved into the place of the removed one
splice_lastIntoHole(tickets, index) ==
  [i \in 1..(Len(tickets) - 1) |-> IF i = index THEN tickets[Len(tickets)] ELSE tickets[i]]

\* Array.prototype.splice(index, 1)
splice(tickets, index) ==
  [i \in 1..(Len(tickets) - 1) |-> IF i < index THEN tickets[i] ELSE tickets[i + 1]]

\* a slip: the predicate is (t) => t.id === ticketId
RECURSIVE filterOut_keepsMatch(_, _)
filterOut_keepsMatch(tickets, ticketId) ==
  IF tickets = <<>> THEN <<>>
  ELSE IF Head(tickets).id = ticketId
       THEN <<Head(tickets)>> \o filterOut_keepsMatch(Tail(tickets), ticketId)
       ELSE filterOut_keepsMatch(Tail(tickets), ticketId)

\* Array.prototype.filter((t) => t.id !== ticketId)
RECURSIVE filterOut(_, _)
filterOut(tickets, ticketId) ==
  IF tickets = <<>> THEN <<>>
  ELSE IF Head(tickets).id # ticketId
       THEN <<Head(tickets)>> \o filterOut(Tail(tickets), ticketId)
       ELSE filterOut(Tail(tickets), ticketId)

InActive(ticketId) == ticketId \in Ids(activeStore)
InHistory(ticketId) == ticketId \in Ids(historyStore)

(***************************************************************************)
(* JavaScript values and JSON texts                                        *)
(***************************************************************************)
\* A value is undefined, null, a string (a sequence of pieces of text, the
\* empty string being <<>>) or a number.
Undefined == [t |-> "undefined", s |-> <<>>, n |-> 0]
Null == [t |-> "null", s |-> <<>>, n |-> 0]
Str(s) == [t |-> "string", s |-> s, n |-> 0]
Num(n) == [t |-> "number", s |-> <<>>, n |-> n]

\* !v
falsy(v) ==
  \/ v.t \in {"undefined", "null"}
  \/ v.t = "string" /\ v.s = <<>>
  \/ v.t = "number" /\ v.n = 0

\* obj.key: undefined when the object has no such member
property(obj, key) == IF key \in DOMAIN obj THEN obj[key] ELSE Undefined

\* An object without members
NoMembers == [key \in {} |-> Undefined]

\* A text is malformed, or it is the JSON text of an object (with its
\* members), of null, or of another value (a number, a string, an array).
Malformed == [wellFormed |-> FALSE, kind |-> "none", members |-> NoMembers]
JSONText(kind, members) == [wellFormed |-> TRUE, kind |-> kind, members |-> members]

\* JSON.stringify of an object: members whose value is undefined are left out
JSONstringify(obj) ==
  JSONText("object", [key \in {k \in DOMAIN obj : obj[k].t # "undefined"} |-> obj[key]])

\* JSON.parse of a well-formed text, as far as member access sees it: a value
\* that is not an object has no members
JSONparse(text) == IF text.kind = "object" THEN text.members ELSE NoMembers

\* the string uuidv4 returned at its n-th call
uuid(n) == <<"uuid", ToString(n)>>

\* Date.prototype.toISOString of an instant
toISOString(instant) == <<"iso", ToString(instant)>>

(***************************************************************************)
(* Ticket records                                                          *)
(***************************************************************************)
\* a slip: entryTime is not copied into the payload
createQRCodeData_noEntryTime(ticket, now) ==
  JSONstringify(
    [id |-> Str(uuid(ticket.id)),
     parkingName |-> Str(ticket.parkingName),
     pricePerHour |-> Num(ticket.pricePerHour),
     timestamp |-> Str(toISOString(now))])

\* createQRCodeData, lines 26-36: the payload, stringified
createQRCodeData(ticket, now) ==
  LET qrData == [id |-> Str(uuid(ticket.id)),
                 parkingName |-> Str(ticket.parkingName),
                 entryTime |-> Str(toISOString(ticket.entryTime)),
                 pricePerHour |-> Num(ticket.pricePerHour),
                 timestamp |-> Str(toISOString(now))]
  IN  JSONstringify(qrData)

\* the value parseQRCodeData returns for null
Invalid == [valid |-> FALSE, parsed |-> NoMembers]

\* parseQRCodeData, lines 43-62
parseQRCodeData(scannedData) ==
  IF ~scannedData.wellFormed
  THEN Invalid  \* JSON.parse throws; line 60
  ELSE IF scannedData.kind = "null"
  THEN Invalid  \* parsed.id throws a TypeError; line 60
  ELSE LET parsed == JSONparse(scannedData) IN
       IF \/ falsy(property(parsed, "id"))
          \/ falsy(property(parsed, "parkingName"))
          \/ falsy(property(parsed, "entryTime"))
          \/ property(parsed, "pricePerHour").t = "undefined"
       THEN Invalid  \* line 54
       ELSE [valid |-> TRUE, parsed |-> parsed]

\* a slip: the status is not set
ticketWithId_noStatus(parkingName, entryTime, pricePerHour, id, now) ==
  LET t == [parkingName |-> parkingName,
            entryTime |-> entryTime,
            pricePerHour |-> pricePerHour]
             @@ [id |-> id, createdAt |-> now]
  IN  [qrCodeData |-> createQRCodeData(t, now)] @@ t

\* addTicket lines 239-247: { ...ticket, id, status, createdAt } and qrCodeData
ticketWithId(parkingName, entryTime, pricePerHour, id, now) ==
  LET t == [id |-> id, status |-> "active", createdAt |-> now]
             @@ [parkingName |-> parkingName,
                 entryTime |-> entryTime,
                 pricePerHour |-> pricePerHour]
  IN  [qrCodeData |-> createQRCodeData(t, now)] @@ t

\* a slip: createdAt is stamped again at closing
closedTicket_restamps(ticket, exitTime, totalAmount) ==
  [exitTime |-> exitTime, totalAmount |-> totalAmount, status |-> "closed",
   createdAt |-> exitTime] @@ ticket

\* a slip: the status is not overwritten
closedTicket_keepsStatus(ticket, exitTime, totalAmount) ==
  [exitTime |-> exitTime, totalAmount |-> totalAmount] @@ ticket

\* closeTicket lines 364-369: { ...activeTickets[ticketIndex], exitTime, totalAmount, status }
closedTicket(ticket, exitTime, totalAmount) ==
  [exitTime |-> exitTime, totalAmount |-> totalAmount, status |-> "closed"] @@ ticket

(***************************************************************************)
(* Calls                                                                   *)
(***************************************************************************)
NoCall ==
  [op |-> "none", id |-> 0, exitTime |-> 0, totalAmount |-> 0,
   ticket |-> <<>>, tickets |-> <<>>, ok |-> FALSE, form |-> <<>>,
   qrData |-> <<>>, status |-> "none",
   writes |-> 0, rejected |-> 0, preActive |-> <<>>, preHistory |-> <<>>,
   preFaults |-> 0]

NewCall(op, id) ==
  [NoCall EXCEPT !.op = op, !.id = id,
                 !.preActive = activeStore, !.preHistory = historyStore,
                 !.preFaults = faults]

AllIdle == \A p \in Procs : pc[p] = "idle"

\* no utility function is being evaluated
NoCalc == [fn |-> "none", applied |-> FALSE]

\* the storage is empty and no call is in progress
InitRepository ==
  /\ activeStore = <<>>
  /\ historyStore = <<>>
  /\ nextId = 1
  /\ pc = [p \in Procs |-> "idle"]
  /\ call = [p \in Procs |-> NoCall]
  /\ opened = {}
  /\ closedOk = {}
  /\ deleted = {}
  /\ interrupted = {}
  /\ faults = 0

Init ==
  /\ InitRepository
  /\ calc = NoCalc

ghosts == <<opened, closedOk, deleted, interrupted, faults>>

\* the environment rejects a storage call or stops the process
Fault ==
  /\ faults < MaxFaults
  /\ faults' = faults + 1

(***************************************************************************)
(* addTicket                                                               *)
(***************************************************************************)
\* lines 236-247: mint the id, stamp createdAt, build the QR payload
AddStart(p, parkingName, pricePerHour, entryTime, now) ==
  /\ pc[p] = "idle"
  /\ nextId <= MaxTickets
  /\ call' = [call EXCEPT ![p] =
       [NewCall("addTicket", nextId) EXCEPT
          !.ticket = <<ticketWithId(parkingName, entryTime, pricePerHour, nextId, now)>>]]
  /\ nextId' = nextId + 1
  /\ pc' = [pc EXCEPT ![p] = "add_read"]
  /\ UNCHANGED <<activeStore, historyStore, ghosts, calc>>

\* lines 250-251: tickets = await getActiveTickets(); tickets.push(ticketWithId)
AddRead(p) ==
  /\ pc[p] = "add_read"
  /\ call' = [call EXCEPT ![p].tickets = Append(activeStore, call[p].ticket[1])]
  /\ pc' = [pc EXCEPT ![p] = "add_write"]
  /\ UNCHANGED <<activeStore, historyStore, nextId, ghosts, calc>>

\* getActiveTickets lines 208-211: the read is rejected, [] is returned
AddReadFail(p) ==
  /\ pc[p] = "add_read"
  /\ call' = [call EXCEPT ![p].tickets = <<call[p].ticket[1]>>]
  /\ pc' = [pc EXCEPT ![p] = "add_write"]
  /\ Fault
  /\ UNCHANGED <<activeStore, historyStore, nextId, opened, closedOk, deleted, interrupted, calc>>

\* lines 252-254: saved = await saveActiveTickets(tickets); return ticketWithId
AddWrite(p) ==
  /\ pc[p] = "add_write"
  /\ activeStore' = call[p].tickets
  /\ call' = [call EXCEPT ![p].ok = TRUE, ![p].writes = @ + 1]
  /\ pc' = [pc EXCEPT ![p] = "done"]
  /\ opened' = opened \cup {call[p].id}
  /\ UNCHANGED <<historyStore, nextId, closedOk, deleted, interrupted, faults, calc>>

\* a slip: the result of saveActiveTickets is dropped, the ticket is returned
AddWriteRejected_returnsTicket(p) ==
  /\ pc[p] = "add_write"
  /\ call' = [call EXCEPT ![p].ok = TRUE, ![p].writes = @ + 1, ![p].rejected = @ + 1]
  /\ pc' = [pc EXCEPT ![p] = "done"]
  /\ Fault
  /\ UNCHANGED <<activeStore, historyStore, nextId, opened, closedOk, deleted, interrupted, calc>>

\* saveActiveTickets lines 223-226 -> false; addTicket line 254 -> null
AddWriteRejected(p) ==
  /\ pc[p] = "add_write"
  /\ call' = [call EXCEPT ![p].ok = FALSE, ![p].ticket = <<>>,
                          ![p].writes = @ + 1, ![p].rejected = @ + 1]
  /\ pc' = [pc EXCEPT ![p] = "done"]
  /\ Fault
  /\ UNCHANGED <<activeStore, historyStore, nextId, opened, closedOk, deleted, interrupted, calc>>

(***************************************************************************)
(* NewTicketScreen.handleSave                                              *)
(***************************************************************************)
\* the text fields of the form hold sequences of characters
Whitespace == {" "}
DecimalDigits == <<"0", "1", "2", "3", "4", "5", "6", "7", "8", "9">>

\* what the user typed, or a scanned QR code filled in
NameTexts == {<<>>, <<" ", " ">>, <<"P", "1">>, <<" ", "P", "1", " ">>}
PriceTexts == {<<"5", "0">>, <<>>, <<"0">>, <<"-", "5">>, <<"x">>, <<"5", "x">>}
\* the entry-time field: empty, or the ISO string of an instant
EntryTexts == {<<>>, <<60>>}
Forms ==
  [parkingName : NameTexts, pricePerHour : PriceTexts,
   useCurrentTime : BOOLEAN, entryTime : EntryTexts]

RECURSIVE trimStart(_)
trimStart(text) ==
  IF text # <<>> /\ Head(text) \in Whitespace THEN trimStart(Tail(text)) ELSE text

RECURSIVE trimEnd(_)
trimEnd(text) ==
  IF text # <<>> /\ text[Len(text)] \in Whitespace
  THEN trimEnd(SubSeq(text, 1, Len(text) - 1))
  ELSE text

\* String.prototype.trim
trim(text) == trimEnd(trimStart(text))

isDigit(c) == \E i \in 1..Len(DecimalDigits) : DecimalDigits[i] = c
digitValue(c) == (CHOOSE i \in 1..Len(DecimalDigits) : DecimalDigits[i] = c) - 1

\* the value of the longest prefix of decimal digits, after the digits read so far
RECURSIVE digitsValue(_, _)
digitsValue(text, sofar) ==
  IF text # <<>> /\ isDigit(Head(text))
  THEN digitsValue(Tail(text), (sofar * Len(DecimalDigits)) + digitValue(Head(text)))
  ELSE sofar

\* parseInt(text): leading whitespace and a sign are skipped, the digits that
\* follow are read, the rest is ignored; NaN when no digit follows
parseInt(text) ==
  LET s == trimStart(text)
      signed == s # <<>> /\ Head(s) \in {"-", "+"}
      digits == IF signed THEN Tail(s) ELSE s
      value == digitsValue(digits, 0)
  IN  IF digits = <<>> \/ ~isDigit(Head(digits))
      THEN [nan |-> TRUE, v |-> 0]
      ELSE [nan |-> FALSE, v |-> IF Head(s) = "-" THEN 0 - value ELSE value]

\* line 614: !parkingName.trim()
invalidName(parkingName) == trim(parkingName) = <<>>

\* a slip: price < 0
invalidPrice_zeroAllowed(price) == price.nan \/ price.v < 0

\* line 621: isNaN(price) || price <= 0
invalidPrice(price) == price.nan \/ price.v <= 0

\* line 627: !useCurrentTime && !entryTime
missingEntryTime(useCurrentTime, entryTime) == ~useCurrentTime /\ entryTime = <<>>

\* lines 612-641: validate the form, build newTicket, start addTicket
\* (lines 236-247); a rejected form ends the handler at its return
HandleSave(p, form, now) ==
  LET price == parseInt(form.pricePerHour) IN
  /\ pc[p] = "idle"
  /\ IF \/ invalidName(form.parkingName)
        \/ invalidPrice(price)
        \/ missingEntryTime(form.useCurrentTime, form.entryTime)
     THEN /\ call' = [call EXCEPT ![p] =
               [NewCall("handleSave", 0) EXCEPT !.form = <<form>>]]
          /\ pc' = [pc EXCEPT ![p] = "done"]
          /\ UNCHANGED nextId
     ELSE LET parkingName == trim(form.parkingName)
              entryTime == IF form.useCurrentTime THEN now ELSE form.entryTime[1]
          IN  /\ nextId <= MaxFormTickets
              /\ call' = [call EXCEPT ![p] =
                   [NewCall("addTicket", nextId) EXCEPT
                      !.ticket = <<ticketWithId(parkingName, entryTime, price.v, nextId, now)>>,
                      !.form = <<form>>]]
              /\ pc' = [pc EXCEPT ![p] = "add_read"]
              /\ nextId' = nextId + 1
  /\ UNCHANGED <<activeStore, historyStore, ghosts, calc>>

(***************************************************************************)
(* deleteHistoryTicket                                                     *)
(***************************************************************************)
DelStart(p, ticketId) ==
  /\ pc[p] = "idle"
  /\ call' = [call EXCEPT ![p] = NewCall("deleteHistoryTicket", ticketId)]
  /\ pc' = [pc EXCEPT ![p] = "del_read"]
  /\ UNCHANGED <<activeStore, historyStore, nextId, ghosts, calc>>

\* lines 329-330: historyTickets = await getHistoryTickets(); filter
DelRead(p) ==
  /\ pc[p] = "del_read"
  /\ call' = [call EXCEPT ![p].tickets = filterOut(historyStore, call[p].id)]
  /\ pc' = [pc EXCEPT ![p] = "del_write"]
  /\ UNCHANGED <<activeStore, historyStore, nextId, ghosts, calc>>

\* getHistoryTickets lines 300-303: the read is rejected, [] is returned
DelReadFail(p) ==
  /\ pc[p] = "del_read"
  /\ call' = [call EXCEPT ![p].tickets = <<>>]
  /\ pc' = [pc EXCEPT ![p] = "del_write"]
  /\ Fault
  /\ UNCHANGED <<activeStore, historyStore, nextId, opened, closedOk, deleted, interrupted, calc>>

\* a slip: the id is filtered out of the active collection as well
DelWrite_bothKeys(p) ==
  /\ pc[p] = "del_write"
  /\ historyStore' = call[p].tickets
  /\ activeStore' = filterOut(activeStore, call[p].id)
  /\ call' = [call EXCEPT ![p].ok = TRUE, ![p].writes = @ + 1]
  /\ pc' = [pc EXCEPT ![p] = "done"]
  /\ deleted' = IF call[p].id \in Ids(call[p].preHistory)
                THEN deleted \cup {call[p].id} ELSE deleted
  /\ UNCHANGED <<nextId, opened, closedOk, interrupted, faults, calc>>

\* line 331: return await saveHistoryTickets(filteredTickets)
DelWrite(p) ==
  /\ pc[p] = "del_write"
  /\ historyStore' = call[p].tickets
  /\ call' = [call EXCEPT ![p].ok = TRUE, ![p].writes = @ + 1]
  /\ pc' = [pc EXCEPT ![p] = "done"]
  /\ deleted' = IF call[p].id \in Ids(call[p].preHistory)
                THEN deleted \cup {call[p].id} ELSE deleted
  /\ UNCHANGED <<activeStore, nextId, opened, closedOk, interrupted, faults, calc>>

\* saveHistoryTickets lines 315-318 -> false
DelWriteRejected(p) ==
  /\ pc[p] = "del_write"
  /\ call' = [call EXCEPT ![p].ok = FALSE, ![p].writes = @ + 1, ![p].rejected = @ + 1]
  /\ pc' = [pc EXCEPT ![p] = "done"]
  /\ Fault
  /\ UNCHANGED <<activeStore, historyStore, nextId, opened, closedOk, deleted, interrupted, calc>>

(***************************************************************************)
(* closeTicket                                                             *)
(***************************************************************************)
CloseStart(p, ticketId, exitTime, totalAmount) ==
  /\ pc[p] = "idle"
  /\ call' = [call EXCEPT ![p] =
       [NewCall("closeTicket", ticketId) EXCEPT
          !.exitTime = exitTime, !.totalAmount = totalAmount]]
  /\ pc' = [pc EXCEPT ![p] = "close_read_active"]
  /\ UNCHANGED <<activeStore, historyStore, nextId, ghosts, calc>>

\* a slip: the not-found branch returns true
CloseLookup_trueWhenMissing(p, activeTickets) ==
  LET ticketIndex == findIndex(activeTickets, call[p].id) IN
  IF ticketIndex = 0
  THEN /\ call' = [call EXCEPT ![p].ok = TRUE]
       /\ pc' = [pc EXCEPT ![p] = "done"]
  ELSE /\ call' = [call EXCEPT
            ![p].ticket = <<closedTicket(activeTickets[ticketIndex],
                                         call[p].exitTime, call[p].totalAmount)>>,
            ![p].tickets = splice(activeTickets, ticketIndex)]
       /\ pc' = [pc EXCEPT ![p] = "close_save_active"]

\* lines 354-372 applied to the list getActiveTickets returned
CloseLookup(p, activeTickets) ==
  LET ticketIndex == findIndex(activeTickets, call[p].id) IN
  IF ticketIndex = 0
  THEN \* lines 358-361: return false
       /\ call' = [call EXCEPT ![p].ok = FALSE]
       /\ pc' = [pc EXCEPT ![p] = "done"]
  ELSE \* lines 364-372: closedTicket, splice
       /\ call' = [call EXCEPT
            ![p].ticket = <<closedTicket(activeTickets[ticketIndex],
                                         call[p].exitTime, call[p].totalAmount)>>,
            ![p].tickets = splice(activeTickets, ticketIndex)]
       /\ pc' = [pc EXCEPT ![p] = "close_save_active"]

\* line 354: activeTickets = await getActiveTickets()
CloseReadActive(p) ==
  /\ pc[p] = "close_read_active"
  /\ CloseLookup(p, activeStore)
  /\ UNCHANGED <<activeStore, historyStore, nextId, ghosts, calc>>

\* getActiveTickets lines 208-211: the read is rejected, [] is returned
CloseReadActiveFail(p) ==
  /\ pc[p] = "close_read_active"
  /\ CloseLookup(p, <<>>)
  /\ Fault
  /\ UNCHANGED <<activeStore, historyStore, nextId, opened, closedOk, deleted, interrupted, calc>>

\* a slip: the spliced list is never saved
CloseSaveActive_notSaved(p) ==
  /\ pc[p] = "close_save_active"
  /\ call' = [call EXCEPT ![p].writes = @ + 1]
  /\ pc' = [pc EXCEPT ![p] = "close_read_history"]
  /\ UNCHANGED <<activeStore, historyStore, nextId, ghosts, calc>>

\* line 373: await saveActiveTickets(activeTickets)
CloseSaveActive(p) ==
  /\ pc[p] = "close_save_active"
  /\ activeStore' = call[p].tickets
  /\ call' = [call EXCEPT ![p].writes = @ + 1]
  /\ pc' = [pc EXCEPT ![p] = "close_read_history"]
  /\ UNCHANGED <<historyStore, nextId, ghosts, calc>>

\* line 373, the write rejected: saveActiveTickets returns false, which is dropped
CloseSaveActiveRejected(p) ==
  /\ pc[p] = "close_save_active"
  /\ call' = [call EXCEPT ![p].writes = @ + 1, ![p].rejected = @ + 1]
  /\ pc' = [pc EXCEPT ![p] = "close_read_history"]
  /\ Fault
  /\ UNCHANGED <<activeStore, historyStore, nextId, opened, closedOk, deleted, interrupted, calc>>

\* lines 376-377: historyTickets = await getHistoryTickets(); push(closedTicket)
CloseReadHistory(p) ==
  /\ pc[p] = "close_read_history"
  /\ call' = [call EXCEPT ![p].tickets = Append(historyStore, call[p].ticket[1])]
  /\ pc' = [pc EXCEPT ![p] = "close_save_history"]
  /\ UNCHANGED <<activeStore, historyStore, nextId, ghosts, calc>>

\* getHistoryTickets lines 300-303: the read is rejected, [] is returned
CloseReadHistoryFail(p) ==
  /\ pc[p] = "close_read_history"
  /\ call' = [call EXCEPT ![p].tickets = <<call[p].ticket[1]>>]
  /\ pc' = [pc EXCEPT ![p] = "close_save_history"]
  /\ Fault
  /\ UNCHANGED <<activeStore, historyStore, nextId, opened, closedOk, deleted, interrupted, calc>>

\* a slip: the history list is never saved
CloseSaveHistory_notSaved(p) ==
  /\ pc[p] = "close_save_history"
  /\ call' = [call EXCEPT ![p].ok = TRUE, ![p].writes = @ + 1]
  /\ pc' = [pc EXCEPT ![p] = "done"]
  /\ UNCHANGED <<activeStore, historyStore, nextId, ghosts, calc>>

\* lines 378-380: await saveHistoryTickets(historyTickets); return true
CloseSaveHistory(p) ==
  /\ pc[p] = "close_save_history"
  /\ historyStore' = call[p].tickets
  /\ call' = [call EXCEPT ![p].ok = TRUE, ![p].writes = @ + 1]
  /\ pc' = [pc EXCEPT ![p] = "done"]
  /\ UNCHANGED <<activeStore, nextId, ghosts, calc>>

\* line 378, the write rejected: the false is dropped, line 380 returns true
CloseSaveHistoryRejected(p) ==
  /\ pc[p] = "close_save_history"
  /\ call' = [call EXCEPT ![p].ok = TRUE, ![p].writes = @ + 1, ![p].rejected = @ + 1]
  /\ pc' = [pc EXCEPT ![p] = "done"]
  /\ Fault
  /\ UNCHANGED <<activeStore, historyStore, nextId, opened, closedOk, deleted, interrupted, calc>>

(***************************************************************************)
(* getTicketById                                                           *)
(***************************************************************************)
GetStart(p, ticketId) ==
  /\ pc[p] = "idle"
  /\ call' = [call EXCEPT ![p] = NewCall("getTicketById", ticketId)]
  /\ pc' = [pc EXCEPT ![p] = "get_read_active"]
  /\ UNCHANGED <<activeStore, historyStore, nextId, ghosts, calc>>

\* a slip: the history list is searched first
GetSearchActive_historyFirst(p, activeTickets) ==
  LET index == findIndex(activeTickets, call[p].id) IN
  IF index # 0 /\ ~InHistory(call[p].id)
  THEN /\ call' = [call EXCEPT ![p].ticket = <<activeTickets[index]>>, ![p].ok = TRUE]
       /\ pc' = [pc EXCEPT ![p] = "done"]
  ELSE /\ UNCHANGED call
       /\ pc' = [pc EXCEPT ![p] = "get_read_history"]

\* lines 270-274 applied to the list getActiveTickets returned
GetSearchActive(p, activeTickets) ==
  LET index == findIndex(activeTickets, call[p].id) IN
  IF index # 0
  THEN \* line 273: return activeTicket
       /\ call' = [call EXCEPT ![p].ticket = <<activeTickets[index]>>, ![p].ok = TRUE]
       /\ pc' = [pc EXCEPT ![p] = "done"]
  ELSE /\ UNCHANGED call
       /\ pc' = [pc EXCEPT ![p] = "get_read_history"]

\* lines 278-280 applied to the list getHistoryTickets returned
GetSearchHistory(p, historyTickets) ==
  LET index == findIndex(historyTickets, call[p].id) IN
  /\ call' = [call EXCEPT
       ![p].ticket = IF index # 0 THEN <<historyTickets[index]>> ELSE <<>>,
       ![p].ok = (index # 0)]
  /\ pc' = [pc EXCEPT ![p] = "done"]

\* line 269: activeTickets = await getActiveTickets()
GetReadActive(p) ==
  /\ pc[p] = "get_read_active"
  /\ GetSearchActive(p, activeStore)
  /\ UNCHANGED <<activeStore, historyStore, nextId, ghosts, calc>>

\* a slip: the rejection is thrown on and nothing catches it
GetReadActiveFail_throws(p) ==
  /\ pc[p] = "get_read_active"
  /\ pc' = [pc EXCEPT ![p] = "raised"]
  /\ UNCHANGED call
  /\ Fault
  /\ UNCHANGED <<activeStore, historyStore, nextId, opened, closedOk, deleted, interrupted, calc>>

\* getActiveTickets lines 208-211: the read is rejected, [] is returned
GetReadActiveFail(p) ==
  /\ pc[p] = "get_read_active"
  /\ pc' = [pc EXCEPT ![p] = "get_read_history"]
  /\ UNCHANGED call
  /\ Fault
  /\ UNCHANGED <<activeStore, historyStore, nextId, opened, closedOk, deleted, interrupted, calc>>

\* line 277: historyTickets = await getHistoryTickets()
GetReadHistory(p) ==
  /\ pc[p] = "get_read_history"
  /\ GetSearchHistory(p, historyStore)
  /\ UNCHANGED <<activeStore, historyStore, nextId, ghosts, calc>>

\* getHistoryTickets lines 300-303: the read is rejected, [] is returned
GetReadHistoryFail(p) ==
  /\ pc[p] = "get_read_history"
  /\ call' = [call EXCEPT ![p].ticket = <<>>, ![p].ok = FALSE]
  /\ pc' = [pc EXCEPT ![p] = "done"]
  /\ Fault
  /\ UNCHANGED <<activeStore, historyStore, nextId, opened, closedOk, deleted, interrupted, calc>>

(***************************************************************************)
(* The caller takes the result; the process stops                          *)
(***************************************************************************)
\* the awaiting caller resumes with the returned value
Return(p) ==
  /\ pc[p] = "done"
  /\ closedOk' = IF call[p].op = "closeTicket" /\ call[p].ok
                 THEN closedOk \cup {call[p].id} ELSE closedOk
  /\ call' = [call EXCEPT ![p] = NoCall]
  /\ pc' = [pc EXCEPT ![p] = "idle"]
  /\ UNCHANGED <<activeStore, historyStore, nextId, opened, deleted, interrupted, faults, calc>>

BetweenCloseWrites(p) ==
  /\ call[p].op = "closeTicket"
  /\ pc[p] \in {"close_read_history", "close_save_history"}

\* the application is killed while a call is suspended; storage is kept
Crash ==
  /\ \E p \in Procs : pc[p] \notin {"idle", "done"}
  /\ Fault
  /\ interrupted' = interrupted \cup {call[p].id : p \in {q \in Procs : BetweenCloseWrites(q)}}
  /\ pc' = [p \in Procs |-> "idle"]
  /\ call' = [p \in Procs |-> NoCall]
  /\ UNCHANGED <<activeStore, historyStore, nextId, opened, closedOk, deleted, calc>>

(***************************************************************************)
(* calculatePrice.js: duration and price                                   *)
(***************************************************************************)
\* A date string is either a well-formed ISO string, which denotes an
\* instant in milliseconds, or a text that Date cannot parse.  A JavaScript
\* number is either NaN or a value.
MsPerMinute == 60000
MinutesPerHour == 60

InstantsMs ==
  {0, 1, 59999, 60000, 60001, 3599999, 3600000, 3660000, 7200000, 7260000, 7500000}
DateStrings ==
  {[iso |-> TRUE, ms |-> m] : m \in InstantsMs} \cup {[iso |-> FALSE, ms |-> 0]}
Rates == {1, 50}

\* a slip: an unparseable date is read as the epoch
getTime_neverNaN(dateString) == [nan |-> FALSE, v |-> dateString.ms]

\* new Date(dateString).getTime()
getTime(dateString) ==
  IF dateString.iso THEN [nan |-> FALSE, v |-> dateString.ms] ELSE [nan |-> TRUE, v |-> 0]

isNaN(x) == x.nan

\* Math.max on two numbers
Max(a, b) == IF a >= b THEN a ELSE b

\* Math.ceil(a / b) for a >= 0, b > 0
CeilDiv(a, b) == IF a % b = 0 THEN a \div b ELSE (a \div b) + 1

\* a slip: Math.round in place of Math.floor
calculateDuration_rounds(entryTime, exitTime) ==
  LET entry == getTime(entryTime)
      exit == getTime(exitTime)
  IN  IF isNaN(entry) \/ isNaN(exit) THEN 0
      ELSE Max(0, ((exit.v - entry.v) + (MsPerMinute \div 2)) \div MsPerMinute)

\* calculateDuration, lines 18-39; \div is Math.floor of the quotient
calculateDuration(entryTime, exitTime) ==
  LET entry == getTime(entryTime)
      exit == getTime(exitTime)
  IN  IF isNaN(entry) \/ isNaN(exit) THEN 0
      ELSE LET durationMs == exit.v - entry.v
               durationMinutes == durationMs \div MsPerMinute
           IN  Max(0, durationMinutes)

\* a slip: Math.floor(durationMinutes / 60) + 1 in place of Math.ceil
calculatePrice_extraHour(entryTime, exitTime, pricePerHour) ==
  LET durationMinutes == calculateDuration(entryTime, exitTime) IN
  IF durationMinutes = 0 THEN 0
  ELSE ((durationMinutes \div MinutesPerHour) + 1) * pricePerHour

\* calculatePrice, lines 55-76
calculatePrice(entryTime, exitTime, pricePerHour) ==
  LET durationMinutes == calculateDuration(entryTime, exitTime) IN
  IF durationMinutes = 0 THEN 0
  ELSE LET hoursToCharge == CeilDiv(durationMinutes, MinutesPerHour)
       IN  hoursToCharge * pricePerHour

\* numbers formatDuration may be given: whole minutes and NaN
MinuteCounts ==
  {[nan |-> FALSE, v |-> m] : m \in {-90, -1, 0, 1, 30, 59, 60, 61, 90, 119, 120, 125, 150, 600}}
    \cup {[nan |-> TRUE, v |-> 0]}

\* a slip: the branch for an exact number of hours is missing
formatDuration_alwaysMinutes(minutes) ==
  IF (~isNaN(minutes) /\ minutes.v < 0) \/ isNaN(minutes)
  THEN <<"0", "min">>
  ELSE LET hours == minutes.v \div MinutesPerHour
           mins == minutes.v % MinutesPerHour
       IN  IF hours = 0 THEN <<ToString(mins), "min">>
           ELSE <<ToString(hours), "h", " ", ToString(mins), "min">>

\* formatDuration, lines 89-104; the text is the sequence of the pieces of
\* the template literal
formatDuration(minutes) ==
  IF (~isNaN(minutes) /\ minutes.v < 0) \/ isNaN(minutes)
  THEN <<"0", "min">>
  ELSE LET hours == minutes.v \div MinutesPerHour
           mins == minutes.v % MinutesPerHour
       IN  IF hours = 0 THEN <<ToString(mins), "min">>
           ELSE IF mins = 0 THEN <<ToString(hours), "h">>
           ELSE <<ToString(hours), "h", " ", ToString(mins), "min">>

FormatInputs ==
  {[fn |-> "formatDuration", applied |-> FALSE, minutes |-> m, result |-> <<>>] :
     m \in MinuteCounts}

ApplyFormatDuration ==
  /\ calc.fn = "formatDuration"
  /\ ~calc.applied
  /\ calc' = [calc EXCEPT !.applied = TRUE, !.result = formatDuration(calc.minutes)]
  /\ UNCHANGED repository

DurationInputs ==
  {[fn |-> "calculateDuration", applied |-> FALSE, entryTime |-> e, exitTime |-> x,
    result |-> 0] : e \in DateStrings, x \in DateStrings}
PriceInputs ==
  {[fn |-> "calculatePrice", applied |-> FALSE, entryTime |-> e, exitTime |-> x,
    pricePerHour |-> r, result |-> 0] : e \in DateStrings, x \in DateStrings, r \in Rates}

ApplyCalculateDuration ==
  /\ calc.fn = "calculateDuration"
  /\ ~calc.applied
  /\ calc' = [calc EXCEPT !.applied = TRUE,
                          !.result = calculateDuration(calc.entryTime, calc.exitTime)]
  /\ UNCHANGED repository

ApplyCalculatePrice ==
  /\ calc.fn = "calculatePrice"
  /\ ~calc.applied
  /\ calc' = [calc EXCEPT !.applied = TRUE,
                          !.result = calculatePrice(calc.entryTime, calc.exitTime,
                                                    calc.pricePerHour)]
  /\ UNCHANGED repository

(***************************************************************************)
(* TicketDetailScreen.handleCloseTicket                                    *)
(***************************************************************************)
\* instants at which the user closes a ticket
ExitInstants == {30, 60, 181, 185}

\* the ISO string of an instant of the repository (minutes), as new Date reads it
dateString(instant) == [iso |-> TRUE, ms |-> instant * MsPerMinute]

\* a slip: the fee is computed from createdAt
closingAmount_fromCreation(ticket, exitTime) ==
  calculatePrice(dateString(ticket.createdAt), dateString(exitTime), ticket.pricePerHour)

\* lines 90-94: calculatePrice(ticket.entryTime, exitTime, ticket.pricePerHour)
closingAmount(ticket, exitTime) ==
  calculatePrice(dateString(ticket.entryTime), dateString(exitTime), ticket.pricePerHour)

\* lines 86-108, the user confirming: exitTime = getCurrentDateTime(), the fee
\* of the ticket the screen has loaded, closeTicket(ticketId, exitTime, totalAmount)
HandleCloseTicket(p, ticket, now) ==
  LET exitTime == now
      totalAmount == closingAmount(ticket, exitTime)
  IN  CloseStart(p, ticket.id, exitTime, totalAmount)

(***************************************************************************)
(* qrCodeUtils.js: scanned texts                                           *)
(***************************************************************************)
RequiredFields == {"id", "parkingName", "entryTime", "pricePerHour"}

\* values a scanned payload may give its members; Undefined: no such member
ScannedIds == {Undefined, Str(<<>>), Str(uuid(1))}
ScannedNames == {Undefined, Str(<<>>), Str(<<"P", "1">>)}
ScannedEntryTimes == {Undefined, Str(<<>>), Str(toISOString(60))}
ScannedPrices == {Undefined, Null, Num(0), Num(50)}

\* texts a scanner may deliver: not JSON, JSON that is not an object, and
\* JSON objects with any of the members present
ScannedTexts ==
  {Malformed, JSONText("null", NoMembers), JSONText("other", NoMembers)}
    \cup {JSONstringify(o) : o \in [id : ScannedIds, parkingName : ScannedNames,
                                      entryTime : ScannedEntryTimes,
                                      pricePerHour : ScannedPrices]}

ParseInputs ==
  {[fn |-> "parseQRCodeData", applied |-> FALSE, scannedData |-> text, result |-> Invalid] :
     text \in ScannedTexts}

ApplyParseQRCodeData ==
  /\ calc.fn = "parseQRCodeData"
  /\ ~calc.applied
  /\ calc' = [calc EXCEPT !.applied = TRUE, !.result = parseQRCodeData(calc.scannedData)]
  /\ UNCHANGED repository

(***************************************************************************)
(* QRScannerScreen.handleBarCodeScanned and verifyTicket                   *)
(***************************************************************************)
\* Array.prototype.find((t) => t.id === ticketId) as the index of the first
\* match, 0 when there is none; a stored id n is the string uuid(n)
find(allTickets, ticketId) ==
  IF \E i \in 1..Len(allTickets) : Str(uuid(allTickets[i].id)) = ticketId
  THEN CHOOSE i \in 1..Len(allTickets) :
         /\ Str(uuid(allTickets[i].id)) = ticketId
         /\ \A j \in 1..(i - 1) : Str(uuid(allTickets[j].id)) # ticketId
  ELSE 0

\* a slip: ticket.exitTime without the negation
verifyTicket_exitTimeMeansActive(allTickets, ticketId) ==
  LET index == find(allTickets, ticketId) IN
  IF index = 0
  THEN [isValid |-> FALSE, ticket |-> <<>>, status |-> "not_found"]
  ELSE LET ticket == allTickets[index]
           isActive == \/ "status" \in DOMAIN ticket /\ ticket.status = "active"
                       \/ "exitTime" \in DOMAIN ticket
       IN  [isValid |-> TRUE, ticket |-> <<ticket>>,
            status |-> IF isActive THEN "active" ELSE "closed"]

\* verifyTicket, lines 70-94; an exitTime that is set is an ISO string, so
\* !ticket.exitTime is the absence of the member
verifyTicket(allTickets, ticketId) ==
  LET index == find(allTickets, ticketId) IN
  IF index = 0
  THEN [isValid |-> FALSE, ticket |-> <<>>, status |-> "not_found"]
  ELSE LET ticket == allTickets[index]
           isActive == \/ "status" \in DOMAIN ticket /\ ticket.status = "active"
                       \/ "exitTime" \notin DOMAIN ticket
       IN  [isValid |-> TRUE, ticket |-> <<ticket>>,
            status |-> IF isActive THEN "active" ELSE "closed"]

\* the QR codes a scanner may read: the code of a ticket with any id, and a
\* text that is no ticket code
QRCodes ==
  {Malformed} \cup
  {createQRCodeData([id |-> id, parkingName |-> n, entryTime |-> e, pricePerHour |-> r], now) :
     id \in TicketIds, n \in ParkingNames, e \in EntryTimes, r \in Prices,
     now \in CreationInstants}

\* handleBarCodeScanned up to its first await: parse the scanned text
ScanStart(p, data) ==
  LET qrData == parseQRCodeData(data) IN
  /\ pc[p] = "idle"
  /\ IF ~qrData.valid
     THEN /\ call' = [call EXCEPT ![p] =
               [NewCall("handleBarCodeScanned", 0) EXCEPT !.status = "invalid"]]
          /\ pc' = [pc EXCEPT ![p] = "done"]
     ELSE /\ call' = [call EXCEPT ![p] =
               [NewCall("handleBarCodeScanned", 0) EXCEPT !.qrData = <<qrData.parsed>>]]
          /\ pc' = [pc EXCEPT ![p] = "scan_read_active"]
  /\ UNCHANGED <<activeStore, historyStore, nextId, ghosts, calc>>

\* activeTickets = await getActiveTickets()
ScanReadActive(p) ==
  /\ pc[p] = "scan_read_active"
  /\ call' = [call EXCEPT ![p].tickets = activeStore]
  /\ pc' = [pc EXCEPT ![p] = "scan_read_history"]
  /\ UNCHANGED <<activeStore, historyStore, nextId, ghosts, calc>>

\* historyTickets = await getHistoryTickets(); allTickets = [...activeTickets,
\* ...historyTickets]; verification = verifyTicket(allTickets, qrData.id)
ScanReadHistory(p) ==
  LET allTickets == call[p].tickets \o historyStore
      verification == verifyTicket(allTickets, property(call[p].qrData[1], "id"))
  IN  /\ pc[p] = "scan_read_history"
      /\ call' = [call EXCEPT ![p].tickets = allTickets,
                              ![p].ok = verification.isValid,
                              ![p].ticket = verification.ticket,
                              ![p].status = verification.status]
      /\ pc' = [pc EXCEPT ![p] = "done"]
      /\ UNCHANGED <<activeStore, historyStore, nextId, ghosts, calc>>

(***************************************************************************)
(* Properties                                                              *)
(***************************************************************************)
Done(p, op) == pc[p] = "done" /\ call[p].op = op

\* no call is suspended: every call that was started has completed
Quiescent == \A p \in Procs : pc[p] \in {"idle", "done"}

ExactlyOne(ticketId) ==
  \/ InActive(ticketId) /\ ~InHistory(ticketId)
  \/ ~InActive(ticketId) /\ InHistory(ticketId)

StoresAsBefore(p) ==
  /\ activeStore = call[p].preActive
  /\ historyStore = call[p].preHistory

\* C1: between completed sequential calls whose storage calls all succeed,
\* every ticket that addTicket returned and that was not deleted from history
\* is in exactly one of the two persisted collections.
C1_ExactlyOneCollection ==
  Quiescent => \A id \in opened \ deleted : ExactlyOne(id)

C1_Witness ==
  /\ Quiescent
  /\ deleted # {}
  /\ \E id \in opened \ deleted : InActive(id)
  /\ \E id \in opened \ deleted : InHistory(id)

BeingClosed ==
  {call[p].id : p \in {q \in Procs : call[q].op = "closeTicket" /\ call[q].ticket # <<>>}}
    \cup closedOk \cup interrupted

\* C3: during and after closeTicket, also when a write is rejected or the
\* process stops between the two writes, the ticket being closed is in exactly
\* one of the two persisted collections (until it is deleted from history).
C3_NeverAbsentNorDuplicated ==
  \A id \in BeingClosed \ deleted : ExactlyOne(id)

\* C4: closeTicket writes history before active: once one of its two writes
\* is done the ticket is in history, and a ticket whose closeTicket was
\* stopped between the two writes is in history, not lost.
C4_HistoryWrittenFirst ==
  /\ \A p \in Procs :
       (BetweenCloseWrites(p) /\ call[p].rejected = 0) => InHistory(call[p].id)
  /\ \A id \in interrupted \ deleted : InHistory(id)

\* C5: closeTicket returns false whenever one of its storage writes was rejected.
C5_CloseFailsOnRejectedWrite ==
  \A p \in Procs :
    (Done(p, "closeTicket") /\ call[p].rejected > 0) => ~call[p].ok

\* C6: when the single write of addTicket or deleteHistoryTicket is rejected,
\* addTicket returns null and deleteHistoryTicket false, exactly one write was
\* attempted, and both persisted collections are as before the call.
C6_RejectedWriteReported ==
  \A p \in Procs :
    ((Done(p, "addTicket") \/ Done(p, "deleteHistoryTicket")) /\ call[p].rejected > 0) =>
      /\ ~call[p].ok
      /\ Done(p, "addTicket") => call[p].ticket = <<>>
      /\ call[p].writes = 1
      /\ StoresAsBefore(p)

C6_Witness ==
  \E p \in Procs :
    /\ Done(p, "deleteHistoryTicket")
    /\ call[p].rejected > 0
    /\ call[p].id \in Ids(call[p].preHistory)

\* C7: closeTicket with an id that is not in the active collection returns
\* false, attempts no storage write and leaves both collections unchanged.
C7_CloseUnknownIdFails ==
  \A p \in Procs :
    (Done(p, "closeTicket") /\ call[p].id \notin Ids(call[p].preActive)) =>
      /\ ~call[p].ok
      /\ call[p].writes = 0
      /\ StoresAsBefore(p)

C7_Witness ==
  \E p \in Procs :
    /\ Done(p, "closeTicket")
    /\ call[p].id \notin Ids(call[p].preActive)
    /\ call[p].id \in Ids(call[p].preHistory)
    /\ activeStore # <<>>

\* C8: deleteHistoryTicket with an id that is not in the history collection
\* returns false and leaves both collections unchanged.
C8_DeleteUnknownIdFails ==
  \A p \in Procs :
    (Done(p, "deleteHistoryTicket") /\ call[p].id \notin Ids(call[p].preHistory)) =>
      (~call[p].ok /\ StoresAsBefore(p))

\* the indices of the records of tickets whose id is not ticketId
KeptIndices(tickets, ticketId) == {i \in 1..Len(tickets) : tickets[i].id # ticketId}

\* after is before without the records of ticketId, the others in their order
RemovedOnly(before, after, ticketId) ==
  LET kept == KeptIndices(before, ticketId) IN
  /\ Len(after) = Cardinality(kept)
  /\ \A i \in kept : after[Cardinality({j \in kept : j <= i})] = before[i]

C9_MiddleRemoved ==
  \E p \in Procs :
    /\ Done(p, "deleteHistoryTicket")
    /\ Len(call[p].preHistory) = 3
    /\ call[p].id = call[p].preHistory[2].id
    /\ Len(historyStore) = 2

Records(tickets, ticketId) == {i \in 1..Len(tickets) : tickets[i].id = ticketId}

\* C11: after addTicket returns a ticket, also when a storage read was
\* rejected, that ticket is the last record of the active collection and its
\* only record with that id, it is not in history, its id was never seen
\* before the call, its status is "active", it has createdAt and qrCodeData
\* and neither exitTime nor totalAmount.
C11_AddedTicketIsActive ==
  \A p \in Procs :
    (Done(p, "addTicket") /\ call[p].ok) =>
      LET ticket == call[p].ticket[1] IN
      /\ activeStore # <<>>
      /\ activeStore[Len(activeStore)] = ticket
      /\ Cardinality(Records(activeStore, ticket.id)) = 1
      /\ ~InHistory(ticket.id)
      /\ ticket.id \notin Ids(call[p].preActive) \cup Ids(call[p].preHistory)
      /\ ticket.id \notin (opened \ {ticket.id}) \cup closedOk \cup deleted \cup interrupted
      /\ "status" \in DOMAIN ticket
      /\ ticket.status = "active"
      /\ {"createdAt", "qrCodeData"} \subseteq DOMAIN ticket
      /\ ticket.qrCodeData.wellFormed
      /\ {"exitTime", "totalAmount"} \cap DOMAIN ticket = {}

\* a second ticket was added while the first one is in history
C11_Witness ==
  \E p \in Procs :
    /\ Done(p, "addTicket")
    /\ call[p].ok
    /\ historyStore # <<>>
    /\ Len(activeStore) = 1
    /\ activeStore[1].id = call[p].id

\* the form a call was started from
Form(p) == call[p].form[1]

\* the name field is empty or holds only whitespace
BlankName(form) == \A i \in 1..Len(form.parkingName) : form.parkingName[i] = " "

\* the rate field does not hold a number greater than 0
NoPositiveRate(form) ==
  LET price == parseInt(form.pricePerHour) IN price.nan \/ price.v < 1

StoredTickets ==
  {activeStore[i] : i \in 1..Len(activeStore)} \cup {historyStore[i] : i \in 1..Len(historyStore)}

\* C12: when the name entered is empty or only whitespace, or the rate entered
\* is not a number greater than 0, handleSave ends without calling addTicket:
\* no storage read, no write, no id minted, both collections as before; and
\* no stored ticket has an empty name or a pricePerHour <= 0.
C12_ValidatedBeforeStorage ==
  /\ \A p \in Procs :
       (call[p].form # <<>> /\ (BlankName(Form(p)) \/ NoPositiveRate(Form(p)))) =>
         /\ Done(p, "handleSave")
         /\ ~call[p].ok
         /\ call[p].ticket = <<>>
         /\ call[p].tickets = <<>>
         /\ call[p].writes = 0
         /\ StoresAsBefore(p)
  /\ \A ticket \in StoredTickets :
       /\ ticket.parkingName # <<>>
       /\ \E i \in 1..Len(ticket.parkingName) : ticket.parkingName[i] # " "
       /\ ticket.pricePerHour > 0

\* a form with a blank name was rejected while tickets are stored
C12_Witness ==
  \E p \in Procs :
    /\ Done(p, "handleSave")
    /\ BlankName(Form(p))
    /\ Form(p).parkingName # <<>>
    /\ activeStore # <<>>
    /\ historyStore # <<>>

Applied(fn) == calc.fn = fn /\ calc.applied

BothParse == calc.entryTime.iso /\ calc.exitTime.iso

ElapsedMs == calc.exitTime.ms - calc.entryTime.ms

\* C13: for valid instants and a positive rate calculatePrice is 0 when the
\* whole-minute duration is 0 and otherwise the rate times the least number of
\* hours that covers the duration: 1..60 minutes cost the rate, 61..120 twice
\* the rate, and an exact multiple of 60 minutes is not billed an extra hour.
C13_StartedHourBilled ==
  (Applied("calculatePrice") /\ BothParse) =>
    LET d == calculateDuration(calc.entryTime, calc.exitTime)
        rate == calc.pricePerHour
    IN  /\ d = 0 => calc.result = 0
        /\ d > 0 => \E h \in 1..d :
                      /\ calc.result = h * rate
                      /\ MinutesPerHour * h >= d
                      /\ MinutesPerHour * (h - 1) < d
        /\ d \in 1..60 => calc.result = rate
        /\ d \in 61..120 => calc.result = 2 * rate
        /\ (d > 0 /\ d % 60 = 0) => calc.result * 60 = d * rate

C13_Witness ==
  /\ Applied("calculatePrice")
  /\ BothParse
  /\ calculateDuration(calc.entryTime, calc.exitTime) = 60
  /\ calc.result = calc.pricePerHour

\* C14: for valid instants calculateDuration is the number of whole minutes
\* from entry to exit when exit is later and 0 otherwise; it is never
\* negative and a stay shorter than one minute has duration 0.
C14_WholeMinutesClamped ==
  (Applied("calculateDuration") /\ BothParse) =>
    /\ calc.result >= 0
    /\ ElapsedMs > 0 =>
         /\ calc.result * 60000 <= ElapsedMs
         /\ ElapsedMs < (calc.result + 1) * 60000
    /\ ElapsedMs <= 0 => calc.result = 0
    /\ ElapsedMs < 60000 => calc.result = 0

C14_Witness ==
  /\ Applied("calculateDuration")
  /\ BothParse
  /\ ElapsedMs > 60000
  /\ ElapsedMs % 60000 > 30000
  /\ calc.result >= 1

\* C15: when the entry or the exit instant does not parse, calculateDuration
\* and calculatePrice return 0, whatever the rate.
C15_UnparseableIsZero ==
  ((Applied("calculateDuration") \/ Applied("calculatePrice")) /\ ~BothParse) =>
    calc.result = 0

C15_Witness ==
  /\ Applied("calculatePrice")
  /\ ~calc.entryTime.iso
  /\ calc.exitTime.iso
  /\ calc.exitTime.ms > 60000
  /\ calc.result = 0

\* C16: parseQRCodeData returns invalid exactly when the text does not parse
\* or one of id, parkingName, entryTime, pricePerHour is missing from the
\* parsed payload; a payload with pricePerHour 0 and the other three members
\* present is valid.
C16_InvalidIffUnparsedOrMissing ==
  Applied("parseQRCodeData") =>
    LET text == calc.scannedData
        payload == JSONparse(text)
    IN  /\ ~calc.result.valid <=>
              (~text.wellFormed \/ \E key \in RequiredFields : key \notin DOMAIN payload)
        /\ (/\ text.wellFormed
            /\ RequiredFields \subseteq DOMAIN payload
            /\ payload["pricePerHour"] = Num(0)) => calc.result.valid

Scanned(p, ticketId) ==
  /\ Done(p, "handleBarCodeScanned")
  /\ call[p].qrData # <<>>
  /\ property(call[p].qrData[1], "id") = Str(uuid(ticketId))

CopiedFields == {"id", "parkingName", "pricePerHour", "entryTime", "createdAt", "qrCodeData"}

RecordsOf(tickets) == {tickets[i] : i \in 1..Len(tickets)}

\* C19: when closeTicket returns true for an active ticket, the history
\* record differs from the active record only in exitTime, totalAmount and
\* status (id, parkingName, pricePerHour, entryTime, createdAt and qrCodeData
\* are the same, exitTime and totalAmount are the arguments); and every call
\* leaves each history record whose id stays in history as it was.
C19_CloseChangesThreeFields ==
  \A p \in Procs :
    /\ (Done(p, "closeTicket") /\ call[p].ok /\ call[p].id \in Ids(call[p].preActive)) =>
         LET old == call[p].preActive[findIndex(call[p].preActive, call[p].id)]
             new == historyStore[Len(historyStore)]
         IN  /\ DOMAIN old = CopiedFields \cup {"status"}
             /\ DOMAIN new = DOMAIN old \cup {"exitTime", "totalAmount"}
             /\ \A field \in CopiedFields : new[field] = old[field]
             /\ new.exitTime = call[p].exitTime
             /\ new.totalAmount = call[p].totalAmount
             /\ old.status = "active" /\ new.status = "closed"
    /\ pc[p] = "done" =>
         \A record \in RecordsOf(call[p].preHistory) :
           record.id \in Ids(historyStore) => record \in RecordsOf(historyStore)

\* a ticket entered in the form was closed while an older record is in history
C19_Witness ==
  \E p \in Procs :
    /\ Done(p, "closeTicket")
    /\ call[p].ok
    /\ call[p].preHistory # <<>>
    /\ Len(historyStore) = Len(call[p].preHistory) + 1
    /\ historyStore[Len(historyStore)].createdAt # historyStore[Len(historyStore)].exitTime

\* C20: in every reachable state, also after rejected storage calls and
\* process stops, every record of the active collection has status "active"
\* and neither exitTime nor totalAmount, and every record of the history
\* collection has status "closed" and both exitTime and totalAmount.
C20_StatusAgreesWithExitTime ==
  /\ \A ticket \in RecordsOf(activeStore) :
       /\ "status" \in DOMAIN ticket
       /\ ticket.status = "active"
       /\ {"exitTime", "totalAmount"} \cap DOMAIN ticket = {}
  /\ \A ticket \in RecordsOf(historyStore) :
       /\ "status" \in DOMAIN ticket
       /\ ticket.status = "closed"
       /\ {"exitTime", "totalAmount"} \subseteq DOMAIN ticket

\* after a rejected write a ticket is in both collections
C20_Witness ==
  /\ faults > 0
  /\ \E id \in TicketIds : InActive(id) /\ InHistory(id)

BothSucceeded(p, q) ==
  /\ p # q
  /\ pc[p] = "done" /\ call[p].ok
  /\ pc[q] = "done" /\ call[q].ok

\* C22: for every interleaving of two overlapping repository calls (two
\* addTicket, an addTicket and a closeTicket, a closeTicket and a
\* deleteHistoryTicket of another id), once both have returned success the
\* persisted collections hold the effect of both.
C22_NoLostUpdate ==
  \A p, q \in DOMAIN pc :
    BothSucceeded(p, q) =>
      /\ (call[p].op = "addTicket" /\ call[q].op = "addTicket") =>
           (InActive(call[p].id) /\ InActive(call[q].id))
      /\ (call[p].op = "addTicket" /\ call[q].op = "closeTicket") =>
           /\ InActive(call[p].id)
           /\ InHistory(call[q].id) /\ ~InActive(call[q].id)
      /\ (/\ call[p].op = "closeTicket"
          /\ call[q].op = "deleteHistoryTicket"
          /\ call[p].id # call[q].id) =>
           /\ InHistory(call[p].id) /\ ~InActive(call[p].id)
           /\ ~InHistory(call[q].id)

\* C28: when two closeTicket calls for the same active id overlap, at most
\* one returns true, and once both have returned history holds exactly one
\* record with that id and active none.
C28_OverlappingClosesCloseOnce ==
  \A p, q \in DOMAIN pc :
    (/\ p # q
     /\ Done(p, "closeTicket") /\ Done(q, "closeTicket")
     /\ call[p].id = call[q].id
     /\ call[p].id \in Ids(call[p].preActive) \cap Ids(call[q].preActive)) =>
      /\ ~(call[p].ok /\ call[q].ok)
      /\ Cardinality(Records(historyStore, call[p].id)) = 1
      /\ ~InActive(call[p].id)

\* C30: a scan that overlaps a closeTicket of the scanned ticket never
\* reports not_found for it.
C30_ScanSeesTicketBeingClosed ==
  \A p, q \in DOMAIN pc : \A id \in TicketIds :
    (/\ p # q
     /\ Scanned(p, id)
     /\ call[q].op = "closeTicket"
     /\ call[q].id = id
     /\ id \in Ids(call[q].preActive)) =>
      call[p].status # "not_found"

\* the number of storage reads of the call of task p that were rejected
FailedReads(p) == (faults - call[p].preFaults) - call[p].rejected

\* the first record of a collection with this id
FirstRecord(tickets, ticketId) == tickets[findIndex(tickets, ticketId)]

\* C23: no repository call ends in an exception: when storage reads or
\* writes are rejected every call still runs to its return, addTicket with a
\* ticket or null, closeTicket and deleteHistoryTicket with true or false,
\* getTicketById with a ticket or null.
C23_NoExceptionEscapes ==
  \A p \in Procs :
    /\ pc[p] # "raised"
    /\ (pc[p] = "done" /\ call[p].op \in {"addTicket", "getTicketById"}) =>
         (call[p].ok <=> call[p].ticket # <<>>)
    /\ (pc[p] = "done" /\ FailedReads(p) > 0
          /\ call[p].op \in {"addTicket", "getTicketById"}) =>
         (call[p].ok => call[p].ticket[1].id = call[p].id)

\* getTicketById returned a ticket although its read of the active key was rejected
C23_Witness ==
  \E p \in Procs :
    /\ Done(p, "getTicketById")
    /\ FailedReads(p) > 0
    /\ call[p].ok

C26_DurationText ==
  (Applied("formatDuration") /\ ~calc.minutes.nan) =>
    LET m == calc.minutes.v
        h == m \div 60
        rest == m - (60 * h)
    IN  /\ m < 0 => calc.result = <<"0", "min">>
        /\ m = 0 => calc.result = <<"0", "min">>
        /\ (0 <= m /\ m < 60) => calc.result = <<ToString(m), "min">>
        /\ (m > 0 /\ rest = 0) => calc.result = <<ToString(h), "h">>
        /\ (m >= 60 /\ rest # 0) =>
             calc.result = <<ToString(h), "h", " ", ToString(rest), "min">>
        /\ m = 60 => calc.result = <<"1", "h">>
        /\ m = 90 => calc.result = <<"1", "h", " ", "30", "min">>

C26_Witness ==
  /\ Applied("formatDuration")
  /\ calc.minutes = [nan |-> FALSE, v |-> 120]
  /\ calc.result = <<"2", "h">>

\* C27: every history record closed through the ticket-detail screen has
\* totalAmount = calculatePrice(entryTime, exitTime, pricePerHour) of its own
\* fields: a non-negative multiple of pricePerHour, 0 when exitTime <=
\* entryTime, the rate times the started hours otherwise (125 minutes at 50
\* is 150).
C27_StoredFeeIsComputedFee ==
  \A record \in RecordsOf(historyStore) :
    LET stay == record.exitTime - record.entryTime IN
    /\ record.totalAmount =
         calculatePrice(dateString(record.entryTime), dateString(record.exitTime),
                        record.pricePerHour)
    /\ record.totalAmount >= 0
    /\ record.totalAmount % record.pricePerHour = 0
    /\ stay <= 0 => record.totalAmount = 0
    /\ stay > 0 => \E hours \in 1..stay :
                     /\ record.totalAmount = hours * record.pricePerHour
                     /\ 60 * (hours - 1) < stay
                     /\ stay <= 60 * hours
    /\ (stay = 125 /\ record.pricePerHour = 50) => record.totalAmount = 150

\* one ticket was closed after 125 minutes, another one before its entry time
C27_Witness ==
  /\ \E record \in RecordsOf(historyStore) :
       record.exitTime - record.entryTime = 125 /\ record.totalAmount = 150
  /\ \E record \in RecordsOf(historyStore) :
       record.exitTime < record.entryTime /\ record.totalAmount = 0

\* C29: a rejected storage read loses no stored ticket: after an addTicket
\* whose read of the active key was rejected every record that was active is
\* still active, and after a closeTicket or deleteHistoryTicket whose read of
\* the history key was rejected every history record (but the one deleted)
\* is still in history.
C29_FailedReadLosesNothing ==
  \A p \in Procs :
    (pc[p] = "done" /\ FailedReads(p) > 0) =>
      /\ call[p].op = "addTicket" =>
           RecordsOf(call[p].preActive) \subseteq RecordsOf(activeStore)
      /\ call[p].op = "closeTicket" =>
           RecordsOf(call[p].preHistory) \subseteq RecordsOf(historyStore)
      /\ call[p].op = "deleteHistoryTicket" =>
           \A record \in RecordsOf(call[p].preHistory) :
             record.id # call[p].id => record \in RecordsOf(historyStore)

(***************************************************************************)
(* Specifications                                                          *)
(***************************************************************************)
StartAdd ==
  \E p \in Procs, n \in ParkingNames, r \in Prices, e \in EntryTimes, now \in CreationInstants :
    AllIdle /\ AddStart(p, n, r, e, now)
StartClose ==
  \E p \in Procs, id \in TicketIds, xa \in CloseArgs :
    AllIdle /\ CloseStart(p, id, xa[1], xa[2])
StartDelete == \E p \in Procs, id \in TicketIds : AllIdle /\ DelStart(p, id)

StepAddRead == \E p \in Procs : AddRead(p)
StepAddWrite == \E p \in Procs : AddWrite(p)
StepDelRead == \E p \in Procs : DelRead(p)
StepDelWrite == \E p \in Procs : DelWrite(p)
StepCloseReadActive == \E p \in Procs : CloseReadActive(p)
StepCloseSaveActive == \E p \in Procs : CloseSaveActive(p)
StepCloseReadHistory == \E p \in Procs : CloseReadHistory(p)
StepCloseSaveHistory == \E p \in Procs : CloseSaveHistory(p)
StepReturn == \E p \in Procs : Return(p)

FailAddRead == \E p \in Procs : AddReadFail(p)
FailAddWrite == \E p \in Procs : AddWriteRejected(p)
FailDelRead == \E p \in Procs : DelReadFail(p)
FailDelWrite == \E p \in Procs : DelWriteRejected(p)
FailCloseReadActive == \E p \in Procs : CloseReadActiveFail(p)
FailCloseSaveActive == \E p \in Procs : CloseSaveActiveRejected(p)
FailCloseReadHistory == \E p \in Procs : CloseReadHistoryFail(p)
FailCloseSaveHistory == \E p \in Procs : CloseSaveHistoryRejected(p)

\* sequential calls, every storage call succeeds
Next ==
  \/ StartAdd \/ StartClose \/ StartDelete
  \/ StepAddRead \/ StepAddWrite
  \/ StepDelRead \/ StepDelWrite
  \/ StepCloseReadActive \/ StepCloseSaveActive
  \/ StepCloseReadHistory \/ StepCloseSaveHistory
  \/ StepReturn

Spec == Init /\ [][Next]_vars

\* sequential calls; a storage read or write may be rejected, the process may stop
StartAddFaulty == nextId <= MaxFaultTickets /\ StartAdd

NextFault ==
  \/ StartAddFaulty \/ StartClose \/ StartDelete
  \/ StepAddRead \/ StepAddWrite
  \/ StepDelRead \/ StepDelWrite
  \/ StepCloseReadActive \/ StepCloseSaveActive
  \/ StepCloseReadHistory \/ StepCloseSaveHistory
  \/ StepReturn
  \/ FailAddRead \/ FailAddWrite
  \/ FailDelRead \/ FailDelWrite
  \/ FailCloseReadActive \/ FailCloseSaveActive
  \/ FailCloseReadHistory \/ FailCloseSaveHistory
  \/ Crash

SpecFault == Init /\ [][NextFault]_vars

\* sequential calls with getTicketById; a storage read or write may be
\* rejected, the process may stop
StartGet == \E p \in Procs, id \in TicketIds : AllIdle /\ GetStart(p, id)
StepGetReadActive == \E p \in Procs : GetReadActive(p)
StepGetReadHistory == \E p \in Procs : GetReadHistory(p)
FailGetReadActive == \E p \in Procs : GetReadActiveFail(p)
FailGetReadHistory == \E p \in Procs : GetReadHistoryFail(p)

NextLookup ==
  \/ StartAddFaulty \/ StartClose \/ StartDelete \/ StartGet
  \/ StepAddRead \/ StepAddWrite
  \/ StepDelRead \/ StepDelWrite
  \/ StepCloseReadActive \/ StepCloseSaveActive
  \/ StepCloseReadHistory \/ StepCloseSaveHistory
  \/ StepGetReadActive \/ StepGetReadHistory
  \/ StepReturn
  \/ FailAddRead \/ FailAddWrite
  \/ FailDelRead \/ FailDelWrite
  \/ FailCloseReadActive \/ FailCloseSaveActive
  \/ FailCloseReadHistory \/ FailCloseSaveHistory
  \/ FailGetReadActive \/ FailGetReadHistory
  \/ Crash

SpecLookup == Init /\ [][NextLookup]_vars

\* sequential calls, every storage call succeeds, tickets are closed from
\* the ticket-detail screen, which has loaded a stored ticket
StartDetailClose ==
  \E p \in Procs, ticket \in StoredTickets, now \in ExitInstants :
    AllIdle /\ HandleCloseTicket(p, ticket, now)

NextDetail ==
  \/ StartAdd \/ StartDetailClose \/ StartDelete
  \/ StepAddRead \/ StepAddWrite
  \/ StepDelRead \/ StepDelWrite
  \/ StepCloseReadActive \/ StepCloseSaveActive
  \/ StepCloseReadHistory \/ StepCloseSaveHistory
  \/ StepReturn

SpecDetail == Init /\ [][NextDetail]_vars

\* sequential calls, every storage call succeeds, QR codes are scanned
StartScan == \E p \in Procs, data \in QRCodes : AllIdle /\ ScanStart(p, data)
StepScanReadActive == \E p \in Procs : ScanReadActive(p)
StepScanReadHistory == \E p \in Procs : ScanReadHistory(p)

NextScan ==
  \/ StartAdd \/ StartClose \/ StartDelete \/ StartScan
  \/ StepAddRead \/ StepAddWrite
  \/ StepDelRead \/ StepDelWrite
  \/ StepCloseReadActive \/ StepCloseSaveActive
  \/ StepCloseReadHistory \/ StepCloseSaveHistory
  \/ StepScanReadActive \/ StepScanReadHistory
  \/ StepReturn

SpecScan == Init /\ [][NextScan]_vars

\* sequential calls, every storage call succeeds, tickets are entered in the form
StartSave ==
  \E p \in Procs, form \in Forms, now \in CreationInstants :
    AllIdle /\ HandleSave(p, form, now)

NextSave ==
  \/ StartSave \/ StartClose \/ StartDelete
  \/ StepAddRead \/ StepAddWrite
  \/ StepDelRead \/ StepDelWrite
  \/ StepCloseReadActive \/ StepCloseSaveActive
  \/ StepCloseReadHistory \/ StepCloseSaveHistory
  \/ StepReturn

SpecSave == Init /\ [][NextSave]_vars

\* Two handlers overlap: each of two tasks makes one call, their storage
\* reads and writes interleave in any order; every storage call succeeds.
\* The run starts from a storage that sequential calls have filled.
Tasks == {"first", "second"}

StoredTicket(id) ==
  CHOOSE ticket \in {ticketWithId(n, e, r, id, now) :
                       n \in ParkingNames, e \in EntryTimes, r \in Prices,
                       now \in CreationInstants} : TRUE

StoredClosedTicket(id) ==
  CHOOSE ticket \in {closedTicket(StoredTicket(id), xa[1], xa[2]) : xa \in CloseArgs} : TRUE

\* nothing stored; one active ticket; one active and one closed ticket
StoredBefore ==
  {[active |-> <<>>, history |-> <<>>],
   [active |-> <<StoredTicket(1)>>, history |-> <<>>],
   [active |-> <<StoredTicket(1)>>, history |-> <<StoredClosedTicket(2)>>]}

InitOverlap ==
  /\ \E stored \in StoredBefore :
       /\ activeStore = stored.active
       /\ historyStore = stored.history
       /\ nextId = Len(stored.active) + Len(stored.history) + 1
  /\ pc = [p \in Tasks |-> "idle"]
  /\ call = [p \in Tasks |-> NoCall]
  /\ opened = Ids(activeStore) \cup Ids(historyStore)
  /\ closedOk = Ids(historyStore)
  /\ deleted = {}
  /\ interrupted = {}
  /\ faults = 0
  /\ calc = NoCalc

OverlapAdd ==
  \E p \in Tasks, n \in ParkingNames, r \in Prices, e \in EntryTimes, now \in CreationInstants :
    AddStart(p, n, r, e, now)
OverlapClose ==
  \E p \in Tasks, id \in TicketIds, xa \in CloseArgs : CloseStart(p, id, xa[1], xa[2])
OverlapDelete == \E p \in Tasks, id \in TicketIds : DelStart(p, id)
OverlapScan == \E p \in Tasks, data \in QRCodes : ScanStart(p, data)

OverlapAddRead == \E p \in Tasks : AddRead(p)
OverlapAddWrite == \E p \in Tasks : AddWrite(p)
OverlapDelRead == \E p \in Tasks : DelRead(p)
OverlapDelWrite == \E p \in Tasks : DelWrite(p)
OverlapCloseReadActive == \E p \in Tasks : CloseReadActive(p)
OverlapCloseSaveActive == \E p \in Tasks : CloseSaveActive(p)
OverlapCloseReadHistory == \E p \in Tasks : CloseReadHistory(p)
OverlapCloseSaveHistory == \E p \in Tasks : CloseSaveHistory(p)
OverlapScanReadActive == \E p \in Tasks : ScanReadActive(p)
OverlapScanReadHistory == \E p \in Tasks : ScanReadHistory(p)

NextOverlap ==
  \/ OverlapAdd \/ OverlapClose \/ OverlapDelete \/ OverlapScan
  \/ OverlapAddRead \/ OverlapAddWrite
  \/ OverlapDelRead \/ OverlapDelWrite
  \/ OverlapCloseReadActive \/ OverlapCloseSaveActive
  \/ OverlapCloseReadHistory \/ OverlapCloseSaveHistory
  \/ OverlapScanReadActive \/ OverlapScanReadHistory

SpecOverlap == InitOverlap /\ [][NextOverlap]_vars

\* one evaluation of a utility function on arguments drawn from the input sets
InitUtils ==
  /\ InitRepository
  /\ \/ calc \in DurationInputs
     \/ calc \in PriceInputs
     \/ calc \in ParseInputs
     \/ calc \in FormatInputs

NextUtils ==
  \/ ApplyCalculateDuration
  \/ ApplyCalculatePrice
  \/ ApplyParseQRCodeData
  \/ ApplyFormatDuration

SpecUtils == InitUtils /\ [][NextUtils]_vars

====
